---- MODULE Spec2Model ----
(***************************************************************************)
(* Invoice / payment reconciliation core of royal-fees.                    *)
(*                                                                         *)
(* The store (supabase tables `invoices` and `payments`) is the shared     *)
(* state.  recordPayment and confirmPayment are async functions: every     *)
(* `await supabase...` is one atomic store operation, and the code between *)
(* two awaits runs without interruption.  Each caller has a program        *)
(* counter that names the store operation it performs next.                *)
(***************************************************************************)
EXTENDS Integers, Sequences, FiniteSets, TLC

VARIABLES invoices, payments, pc, call, result, pre, probe,
          generated, submit, retry

vars == <<invoices, payments, pc, call, result, pre, probe,
          generated, submit, retry>>

-----------------------------------------------------------------------------
(* Bounds of the model *)

MaxPayments == 2
MaxTotal == 2

Callers == {1, 2}
InvoiceIds == {1, 2}
\* the ids a caller may pass: 0 resolves to no row
InvoiceIdInputs == {0} \cup InvoiceIds
PaymentIdInputs == 0..MaxPayments

\* amounts a caller may submit: negative, zero, within and beyond any balance
Amounts == (0 - 1)..(MaxTotal + 1)

-----------------------------------------------------------------------------
(* Strings are sequences of characters; NULL is the JS null / undefined.   *)

NULL == <<"NULL">>
Truthy(s) == s # NULL /\ s # <<>>

RECURSIVE trimStart(_)
trimStart(s) ==
  IF s # <<>> /\ Head(s) = " " THEN trimStart(Tail(s)) ELSE s

RECURSIVE trimEnd(_)
trimEnd(s) ==
  IF s # <<>> /\ s[Len(s)] = " " THEN trimEnd(SubSeq(s, 1, Len(s) - 1)) ELSE s

trim(s) == trimEnd(trimStart(s))

\* x || null
OrNull(s) == IF Truthy(s) THEN s ELSE NULL

-----------------------------------------------------------------------------
(* Errors *)

NoError == [kind |-> "none", field |-> "", message |-> ""]
ValidationError(message, field) ==
  [kind |-> "ValidationError", field |-> field, message |-> message]
PaymentError(message) == [kind |-> "PaymentError", field |-> "", message |-> message]
InvoiceError(message) == [kind |-> "InvoiceError", field |-> "", message |-> message]
\* what the store client returns in `error`: a PostgrestError with a code
PostgrestError(code) == [kind |-> "PostgrestError", field |-> "", message |-> code]
PlainError(message) == [kind |-> "Error", field |-> "", message |-> message]

DomainKinds == {"PaymentError", "InvoiceError", "ValidationError"}

formatSupabaseError(error) ==
  IF error.message = "PGRST116" THEN "Record not found"
  ELSE "An unexpected error occurred"

\* faulty variant: every caught error is wrapped in a new Error
handleAsyncOperation_wrapAll(error) ==
  IF error.kind = "PostgrestError" THEN PlainError(formatSupabaseError(error))
  ELSE PlainError(error.message)

\* the catch block of handleAsyncOperation: what is rethrown for `error`
handleAsyncOperation(error) ==
  IF error.kind \in DomainKinds THEN error
  ELSE IF error.kind = "PostgrestError" THEN PlainError(formatSupabaseError(error))
  ELSE PlainError(error.message)

-----------------------------------------------------------------------------
(* Validation rules *)

\* faulty variant: the amount is not compared with the balance
validatePaymentAmount_noBalance(amount, invoiceBalance, existingPayments) ==
  IF amount <= 0
    THEN ValidationError("Payment amount must be greater than zero", "amount")
  ELSE NoError

\* faulty variant: an amount equal to the balance is rejected
validatePaymentAmount_belowBalance(amount, invoiceBalance, existingPayments) ==
  IF amount <= 0
    THEN ValidationError("Payment amount must be greater than zero", "amount")
  ELSE IF amount >= invoiceBalance
    THEN ValidationError("Payment amount cannot exceed invoice balance", "amount")
  ELSE NoError

\* faulty variant: the third test compares the running total with the balance
validatePaymentAmount_totalCheck(amount, invoiceBalance, existingPayments) ==
  IF amount <= 0
    THEN ValidationError("Payment amount must be greater than zero", "amount")
  ELSE IF amount > invoiceBalance
    THEN ValidationError("Payment amount cannot exceed invoice balance", "amount")
  ELSE IF existingPayments + amount > invoiceBalance
    THEN ValidationError("Total payments cannot exceed invoice total amount", "amount")
  ELSE NoError

validatePaymentAmount(amount, invoiceBalance, existingPayments) ==
  IF amount <= 0
    THEN ValidationError("Payment amount must be greater than zero", "amount")
  ELSE IF amount > invoiceBalance
    THEN ValidationError("Payment amount cannot exceed invoice balance", "amount")
  ELSE IF existingPayments + amount > invoiceBalance + existingPayments
    THEN ValidationError("Total payments cannot exceed invoice total amount", "amount")
  ELSE NoError

\* faulty variant: the bank fields are not trimmed before the emptiness test
validateBankDetails_noTrim(paymentMethod, bankName, transactionRef) ==
  IF paymentMethod = "bank_transfer"
    THEN IF ~Truthy(bankName)
           THEN ValidationError("Bank name is required for bank transfer payments",
                                "bank_name")
         ELSE IF ~Truthy(transactionRef)
           THEN ValidationError(
                  "Transaction reference is required for bank transfer payments",
                  "transaction_reference")
         ELSE NoError
    ELSE NoError

validateBankDetails(paymentMethod, bankName, transactionRef) ==
  IF paymentMethod = "bank_transfer"
    THEN IF ~Truthy(bankName) \/ trim(bankName) = <<>>
           THEN ValidationError("Bank name is required for bank transfer payments",
                                "bank_name")
         ELSE IF ~Truthy(transactionRef) \/ trim(transactionRef) = <<>>
           THEN ValidationError(
                  "Transaction reference is required for bank transfer payments",
                  "transaction_reference")
         ELSE NoError
    ELSE NoError

-----------------------------------------------------------------------------
(* Invoice ledger *)

RECURSIVE SumAmounts(_, _, _)
\* payments.reduce((sum, payment) => sum + payment.amount, 0) over the rows
\* of invoice invoiceId whose status is `status`
SumAmounts(rows, invoiceId, status) ==
  IF rows = <<>> THEN 0
  ELSE (IF Head(rows).invoice_id = invoiceId /\ Head(rows).status = status
          THEN Head(rows).amount ELSE 0)
       + SumAmounts(Tail(rows), invoiceId, status)

\* faulty variant: the payments query lacks .eq('status', 'confirmed')
getInvoiceDetails_anyStatus(invoice, rows, invoiceId) ==
  LET current_paid_amount == SumAmounts(rows, invoiceId, "confirmed")
                             + SumAmounts(rows, invoiceId, "pending")
  IN [total_amount |-> invoice.total_amount,
      paid_amount |-> invoice.paid_amount,
      status |-> invoice.status,
      current_paid_amount |-> current_paid_amount,
      balance |-> invoice.total_amount - current_paid_amount]

\* faulty variant: the stored paid_amount is taken as the current paid amount
getInvoiceDetails_fromStored(invoice, rows, invoiceId) ==
  [total_amount |-> invoice.total_amount,
   paid_amount |-> invoice.paid_amount,
   status |-> invoice.status,
   current_paid_amount |-> invoice.paid_amount,
   balance |-> invoice.total_amount - invoice.paid_amount]

\* the object getInvoiceDetails returns, from the invoice row it read and the
\* confirmed payments it read afterwards
getInvoiceDetails(invoice, rows, invoiceId) ==
  LET current_paid_amount == SumAmounts(rows, invoiceId, "confirmed")
  IN [total_amount |-> invoice.total_amount,
      paid_amount |-> invoice.paid_amount,
      status |-> invoice.status,
      current_paid_amount |-> current_paid_amount,
      balance |-> invoice.total_amount - current_paid_amount]

\* faulty variant: 'paid' needs more than the total
calculateInvoiceStatus_strict(totalAmount, paidAmount) ==
  IF paidAmount <= 0 THEN "pending"
  ELSE IF paidAmount > totalAmount THEN "paid"
  ELSE "partial"

\* faulty variant: 'paid' only for the exact total
calculateInvoiceStatus_exact(totalAmount, paidAmount) ==
  IF paidAmount <= 0 THEN "pending"
  ELSE IF paidAmount = totalAmount THEN "paid"
  ELSE "partial"

calculateInvoiceStatus(totalAmount, paidAmount) ==
  IF paidAmount <= 0 THEN "pending"
  ELSE IF paidAmount >= totalAmount THEN "paid"
  ELSE "partial"

-----------------------------------------------------------------------------
(* Consistency checker *)

\* the rows getInvoicePayments returns: the payments of the invoice
getInvoicePayments(rows, invoiceId) ==
  SelectSeq(rows, LAMBDA p : p.invoice_id = invoiceId)

\* transactionRefs.indexOf(ref)
RECURSIVE indexOf(_, _, _)
indexOf(refs, ref, from) ==
  IF from > Len(refs) THEN 0
  ELSE IF refs[from] = ref THEN from
  ELSE indexOf(refs, ref, from + 1)

RECURSIVE duplicateRefsFrom(_, _)
\* transactionRefs.filter((ref, index) => transactionRefs.indexOf(ref) !== index),
\* from position k on
duplicateRefsFrom(refs, k) ==
  IF k > Len(refs) THEN <<>>
  ELSE (IF indexOf(refs, refs[k], 1) # k THEN <<refs[k]>> ELSE <<>>)
       \o duplicateRefsFrom(refs, k + 1)

RECURSIVE TotalAmount(_)
\* confirmedPayments.reduce((sum, p) => sum + p.amount, 0)
TotalAmount(rows) ==
  IF rows = <<>> THEN 0 ELSE Head(rows).amount + TotalAmount(Tail(rows))

ExceedError == [kind |-> "exceed", refs |-> <<>>]
DuplicateError(refs) == [kind |-> "duplicate", refs |-> refs]

\* faulty variant: references are compared over all rows, pending ones too
validateInvoicePayments_allRows(invoice, rows) ==
  LET confirmedPayments == SelectSeq(rows, LAMBDA p : p.status = "confirmed")
      totalPayments == TotalAmount(confirmedPayments)
      withRef == SelectSeq(rows, LAMBDA p : Truthy(p.transaction_reference))
      transactionRefs == [k \in DOMAIN withRef |-> withRef[k].transaction_reference]
      duplicates == duplicateRefsFrom(transactionRefs, 1)
      errors == (IF totalPayments > invoice.total_amount
                   THEN <<ExceedError>> ELSE <<>>)
                \o (IF Len(duplicates) > 0
                      THEN <<DuplicateError(duplicates)>> ELSE <<>>)
  IN [isValid |-> Len(errors) = 0,
      totalPayments |-> totalPayments,
      invoiceTotal |-> invoice.total_amount,
      errors |-> errors]

\* faulty variant: an invoice paid exactly in full is reported as exceeded
validateInvoicePayments_atLeast(invoice, rows) ==
  LET confirmedPayments == SelectSeq(rows, LAMBDA p : p.status = "confirmed")
      totalPayments == TotalAmount(confirmedPayments)
      withRef == SelectSeq(confirmedPayments,
                           LAMBDA p : Truthy(p.transaction_reference))
      transactionRefs == [k \in DOMAIN withRef |-> withRef[k].transaction_reference]
      duplicates == duplicateRefsFrom(transactionRefs, 1)
      errors == (IF totalPayments >= invoice.total_amount
                   THEN <<ExceedError>> ELSE <<>>)
                \o (IF Len(duplicates) > 0
                      THEN <<DuplicateError(duplicates)>> ELSE <<>>)
  IN [isValid |-> Len(errors) = 0,
      totalPayments |-> totalPayments,
      invoiceTotal |-> invoice.total_amount,
      errors |-> errors]

\* the object validateInvoicePayments returns, from the invoice details and
\* the rows of getInvoicePayments
validateInvoicePayments(invoice, rows) ==
  LET confirmedPayments == SelectSeq(rows, LAMBDA p : p.status = "confirmed")
      totalPayments == TotalAmount(confirmedPayments)
      withRef == SelectSeq(confirmedPayments,
                           LAMBDA p : Truthy(p.transaction_reference))
      transactionRefs == [k \in DOMAIN withRef |-> withRef[k].transaction_reference]
      duplicates == duplicateRefsFrom(transactionRefs, 1)
      errors == (IF totalPayments > invoice.total_amount
                   THEN <<ExceedError>> ELSE <<>>)
                \o (IF Len(duplicates) > 0
                      THEN <<DuplicateError(duplicates)>> ELSE <<>>)
  IN [isValid |-> Len(errors) = 0,
      totalPayments |-> totalPayments,
      invoiceTotal |-> invoice.total_amount,
      errors |-> errors]

-----------------------------------------------------------------------------
(* Rows and call frames *)

NoInvoice ==
  [total_amount |-> 0, paid_amount |-> 0, status |-> "none",
   current_paid_amount |-> 0, balance |-> 0]

NoPayment ==
  [invoice_id |-> 0, amount |-> 0, payment_method |-> "none",
   transaction_reference |-> NULL, bank_name |-> NULL,
   received_by |-> 0, status |-> "none", confirmed_by |-> 0]

NoData ==
  [amount |-> 0, payment_method |-> "none",
   transaction_reference |-> NULL, bank_name |-> NULL]

\* the payment forms a caller submits: every amount in cash; bank transfers
\* with every combination of missing, empty, blank and present bank fields;
\* a cash payment with a reference and an empty bank name; and bank
\* transfers whose amount is invalid as well
PaymentForms ==
  {[amount |-> a, payment_method |-> "cash",
    transaction_reference |-> NULL, bank_name |-> NULL] : a \in Amounts}
  \cup
  {[amount |-> 1, payment_method |-> "cash",
    transaction_reference |-> <<"X">>, bank_name |-> <<>>]}
  \cup
  {[amount |-> 1, payment_method |-> "bank_transfer",
    transaction_reference |-> r, bank_name |-> b] :
      r \in {NULL, <<>>, <<" ">>, <<"X">>}, b \in {NULL, <<>>, <<" ">>, <<" ", "G">>}}
  \cup
  {[amount |-> a, payment_method |-> "bank_transfer",
    transaction_reference |-> <<"X">>, bank_name |-> b] :
      a \in {0, MaxTotal + 1}, b \in {<<>>, <<" ", "G">>}}

\* the forms of the faulty and the concurrent specification: cash, with an
\* amount that passes validation on a fresh invoice or exceeds its balance
CashForms ==
  {d \in PaymentForms :
     d.payment_method = "cash" /\ d.bank_name = NULL /\ d.amount > 0}

\* faulty variant: the row is inserted as failed
newPayment_failed(invoiceId, paymentData, receivedBy) ==
  [invoice_id |-> invoiceId,
   amount |-> paymentData.amount,
   payment_method |-> paymentData.payment_method,
   transaction_reference |-> OrNull(paymentData.transaction_reference),
   bank_name |-> OrNull(paymentData.bank_name),
   received_by |-> receivedBy,
   status |-> "failed",
   confirmed_by |-> 0]

\* faulty variant: the row is inserted as confirmed
newPayment_confirmed(invoiceId, paymentData, receivedBy) ==
  [invoice_id |-> invoiceId,
   amount |-> paymentData.amount,
   payment_method |-> paymentData.payment_method,
   transaction_reference |-> OrNull(paymentData.transaction_reference),
   bank_name |-> OrNull(paymentData.bank_name),
   received_by |-> receivedBy,
   status |-> "confirmed",
   confirmed_by |-> 0]

\* the row recordPayment inserts
newPayment(invoiceId, paymentData, receivedBy) ==
  [invoice_id |-> invoiceId,
   amount |-> paymentData.amount,
   payment_method |-> paymentData.payment_method,
   transaction_reference |-> OrNull(paymentData.transaction_reference),
   bank_name |-> OrNull(paymentData.bank_name),
   received_by |-> receivedBy,
   status |-> "pending",
   confirmed_by |-> 0]

\* faulty variant: the update also clears the row's bank columns
confirmedPayment_clearsBank(row, confirmedBy) ==
  [row EXCEPT !.status = "confirmed", !.confirmed_by = confirmedBy,
              !.transaction_reference = NULL, !.bank_name = NULL]

\* .update({status: 'confirmed', confirmed_by}) applied to a payment row
confirmedPayment(row, confirmedBy) ==
  [row EXCEPT !.status = "confirmed", !.confirmed_by = confirmedBy]

\* faulty variant: a cancelled or overdue invoice keeps its status
updatedInvoice_keepsClosed(row, newPaidAmount, newStatus) ==
  IF row.status \in {"overdue", "cancelled"}
    THEN [row EXCEPT !.paid_amount = newPaidAmount]
  ELSE [row EXCEPT !.paid_amount = newPaidAmount, !.status = newStatus]

\* faulty variant: the invoice update writes status only
updatedInvoice_statusOnly(row, newPaidAmount, newStatus) ==
  [row EXCEPT !.status = newStatus]

\* faulty variant: the invoice update writes paid_amount only
updatedInvoice_amountOnly(row, newPaidAmount, newStatus) ==
  [row EXCEPT !.paid_amount = newPaidAmount]

\* .update({paid_amount, status}) applied to an invoice row
updatedInvoice(row, newPaidAmount, newStatus) ==
  [row EXCEPT !.paid_amount = newPaidAmount, !.status = newStatus]

IdleCall ==
  [op |-> "none", invoiceId |-> 0, paymentId |-> 0, data |-> NoData, by |-> 0,
   payment |-> NoPayment, invoice |-> NoInvoice,
   newPaidAmount |-> 0, newStatus |-> "none"]

\* what validateInvoicePayments returns
NoValidation ==
  [isValid |-> FALSE, totalPayments |-> 0, invoiceTotal |-> 0, errors |-> <<>>]

NoResult == [ok |-> FALSE, error |-> NoError, invoiceStatusChanged |-> FALSE,
             paymentId |-> 0, validation |-> NoValidation]

\* one evaluation of a pure function of the code: its name, its arguments
\* and what it returned
NoProbe == [fn |-> "none", args |-> <<>>, out |-> <<>>]

\* the user id a caller passes as receivedBy / confirmedBy
UserOf(c) == c

Store == [invoices |-> invoices, payments |-> payments]

-----------------------------------------------------------------------------
(* Initial state: every invoice as generated, no payment yet *)

\* the invoice form of a session that is not submitting
IdleSubmit == [pc |-> "idle", student_id |-> 0, term |-> "none",
               existingInvoice |-> FALSE, outcome |-> "none"]

\* no retryOperation call in progress
IdleRetry == [pc |-> "idle", maxRetries |-> 0, attempt |-> 0, history |-> <<>>,
              ok |-> FALSE, error |-> NoError]

\* the payment core, the pure functions and retryOperation do not touch the
\* generated invoices, and the payment core and invoice generation run no
\* retryOperation
GenerationAtRest == UNCHANGED <<generated, submit>>
RetryAtRest == UNCHANGED retry

Init ==
  /\ invoices \in [InvoiceIds -> {[total_amount |-> t, paid_amount |-> 0,
                                   status |-> "pending"] : t \in {MaxTotal}}]
  /\ payments = <<>>
  /\ pc = [c \in Callers |-> "idle"]
  /\ call = [c \in Callers |-> IdleCall]
  /\ result = [c \in Callers |-> NoResult]
  /\ pre = Store
  /\ probe = NoProbe
  /\ generated = <<>>
  /\ submit = [c \in Callers |-> IdleSubmit]
  /\ retry = IdleRetry

-----------------------------------------------------------------------------
(* Leaving a call *)

\* the promise of caller c rejects with handleAsyncOperation's error
Throw(c, error) ==
  /\ pc' = [pc EXCEPT ![c] = "done"]
  /\ result' = [result EXCEPT ![c] =
                  [ok |-> FALSE, error |-> handleAsyncOperation(error),
                   invoiceStatusChanged |-> FALSE, paymentId |-> 0,
                   validation |-> NoValidation]]

\* the promise of caller c resolves
Return(c, paymentId, invoiceStatusChanged) ==
  /\ pc' = [pc EXCEPT ![c] = "done"]
  /\ result' = [result EXCEPT ![c] =
                  [ok |-> TRUE, error |-> NoError,
                   invoiceStatusChanged |-> invoiceStatusChanged,
                   paymentId |-> paymentId, validation |-> NoValidation]]

\* the promise of a validateInvoicePayments call resolves
ReturnValidation(c, validation) ==
  /\ pc' = [pc EXCEPT ![c] = "done"]
  /\ result' = [result EXCEPT ![c] =
                  [ok |-> TRUE, error |-> NoError, invoiceStatusChanged |-> FALSE,
                   paymentId |-> 0, validation |-> validation]]

-----------------------------------------------------------------------------
(* recordPayment *)

recordPayment_call(c, invoiceId, paymentData) ==
  /\ pc[c] = "idle"
  /\ pc' = [pc EXCEPT ![c] = "selectInvoice"]
  /\ call' = [call EXCEPT ![c] =
                [IdleCall EXCEPT !.op = "recordPayment", !.invoiceId = invoiceId,
                                 !.data = paymentData, !.by = UserOf(c)]]
  /\ UNCHANGED <<invoices, payments, result, probe>>

\* getInvoiceDetails, first query: the invoice row, .single()
getInvoiceDetails_selectInvoice(c) ==
  /\ pc[c] = "selectInvoice"
  /\ IF call[c].invoiceId \in DOMAIN invoices
       THEN /\ call' = [call EXCEPT ![c].invoice =
                          getInvoiceDetails(invoices[call[c].invoiceId], <<>>,
                                            call[c].invoiceId)]
            /\ pc' = [pc EXCEPT ![c] = "selectPayments"]
            /\ UNCHANGED result
       ELSE /\ Throw(c, handleAsyncOperation(PostgrestError("PGRST116")))
            /\ UNCHANGED call
  /\ UNCHANGED <<invoices, payments, pre, probe>>

\* faulty variant: the bank details are validated after the insert
recordPayment_validate_late(c) ==
  /\ pc[c] = "selectPayments"
  /\ call[c].op = "recordPayment"
  /\ LET invoice == getInvoiceDetails(call[c].invoice, payments, call[c].invoiceId)
         data == call[c].data
         amountError == validatePaymentAmount(data.amount, invoice.balance,
                                              invoice.current_paid_amount)
         bankError == validateBankDetails(data.payment_method, data.bank_name,
                                          data.transaction_reference)
     IN IF amountError # NoError
          THEN Throw(c, amountError) /\ UNCHANGED <<call, payments>>
        ELSE IF bankError # NoError
          THEN /\ Len(payments) < MaxPayments
               /\ payments' = Append(payments,
                                     newPayment(call[c].invoiceId, data, call[c].by))
               /\ Throw(c, bankError)
               /\ UNCHANGED call
        ELSE /\ call' = [call EXCEPT ![c].invoice = invoice]
             /\ pc' = [pc EXCEPT ![c] = "insertPayment"]
             /\ UNCHANGED <<result, payments>>
  /\ UNCHANGED <<invoices, pre, probe>>

\* getInvoiceDetails, second query (the confirmed payments), then the
\* validations of recordPayment
\* faulty variant: the bank details are validated before the amount
recordPayment_validate_bankFirst(c) ==
  /\ pc[c] = "selectPayments"
  /\ call[c].op = "recordPayment"
  /\ LET invoice == getInvoiceDetails(call[c].invoice, payments, call[c].invoiceId)
         data == call[c].data
         amountError == validatePaymentAmount(data.amount, invoice.balance,
                                              invoice.current_paid_amount)
         bankError == validateBankDetails(data.payment_method, data.bank_name,
                                          data.transaction_reference)
     IN IF bankError # NoError
          THEN Throw(c, bankError) /\ UNCHANGED call
        ELSE IF amountError # NoError
          THEN Throw(c, amountError) /\ UNCHANGED call
        ELSE /\ call' = [call EXCEPT ![c].invoice = invoice]
             /\ pc' = [pc EXCEPT ![c] = "insertPayment"]
             /\ UNCHANGED result
  /\ UNCHANGED <<invoices, payments, pre, probe>>

recordPayment_validate(c) ==
  /\ pc[c] = "selectPayments"
  /\ call[c].op = "recordPayment"
  /\ LET invoice == getInvoiceDetails(call[c].invoice, payments, call[c].invoiceId)
         data == call[c].data
         amountError == validatePaymentAmount(data.amount, invoice.balance,
                                              invoice.current_paid_amount)
         bankError == validateBankDetails(data.payment_method, data.bank_name,
                                          data.transaction_reference)
     IN IF amountError # NoError
          THEN Throw(c, amountError) /\ UNCHANGED call
        ELSE IF bankError # NoError
          THEN Throw(c, bankError) /\ UNCHANGED call
        ELSE /\ call' = [call EXCEPT ![c].invoice = invoice]
             /\ pc' = [pc EXCEPT ![c] = "insertPayment"]
             /\ UNCHANGED result
  /\ UNCHANGED <<invoices, payments, pre, probe>>

\* the insert, .select().single()
recordPayment_insert(c) ==
  /\ pc[c] = "insertPayment"
  /\ Len(payments) < MaxPayments
  /\ payments' = Append(payments,
                        newPayment(call[c].invoiceId, call[c].data, call[c].by))
  /\ Return(c, Len(payments) + 1, FALSE)
  /\ UNCHANGED <<invoices, call, pre, probe>>

-----------------------------------------------------------------------------
(* confirmPayment *)

confirmPayment_call(c, paymentId) ==
  /\ pc[c] = "idle"
  /\ pc' = [pc EXCEPT ![c] = "selectPayment"]
  /\ call' = [call EXCEPT ![c] =
                [IdleCall EXCEPT !.op = "confirmPayment", !.paymentId = paymentId,
                                 !.by = UserOf(c)]]
  /\ UNCHANGED <<invoices, payments, result, probe>>

\* faulty variant: the status of the payment is not inspected
confirmPayment_selectPayment_anyStatus(c) ==
  /\ pc[c] = "selectPayment"
  /\ IF call[c].paymentId \notin DOMAIN payments
       THEN Throw(c, PostgrestError("PGRST116")) /\ UNCHANGED call
     ELSE /\ call' = [call EXCEPT ![c].payment = payments[call[c].paymentId],
                                  ![c].invoiceId = payments[call[c].paymentId].invoice_id]
          /\ pc' = [pc EXCEPT ![c] = "selectInvoice"]
          /\ UNCHANGED result
  /\ UNCHANGED <<invoices, payments, pre, probe>>

\* select the payment, .single(); reject a confirmed one
confirmPayment_selectPayment(c) ==
  /\ pc[c] = "selectPayment"
  /\ IF call[c].paymentId \notin DOMAIN payments
       THEN Throw(c, PostgrestError("PGRST116")) /\ UNCHANGED call
     ELSE IF payments[call[c].paymentId].status = "confirmed"
       THEN Throw(c, PaymentError("Payment is already confirmed")) /\ UNCHANGED call
     ELSE /\ call' = [call EXCEPT ![c].payment = payments[call[c].paymentId],
                                  ![c].invoiceId = payments[call[c].paymentId].invoice_id]
          /\ pc' = [pc EXCEPT ![c] = "selectInvoice"]
          /\ UNCHANGED result
  /\ UNCHANGED <<invoices, payments, pre, probe>>

\* faulty variant: newPaidAmount adds the amount to the stored paid_amount
confirmPayment_compute_fromStored(c) ==
  /\ pc[c] = "selectPayments"
  /\ call[c].op = "confirmPayment"
  /\ LET invoice == getInvoiceDetails(call[c].invoice, payments, call[c].invoiceId)
         newPaidAmount == invoice.paid_amount + call[c].payment.amount
     IN call' = [call EXCEPT ![c].invoice = invoice,
                             ![c].newPaidAmount = newPaidAmount,
                             ![c].newStatus =
                               calculateInvoiceStatus(invoice.total_amount, newPaidAmount)]
  /\ pc' = [pc EXCEPT ![c] = "updatePayment"]
  /\ UNCHANGED <<invoices, payments, result, pre, probe>>

\* getInvoiceDetails, second query, then newPaidAmount and newStatus
confirmPayment_compute(c) ==
  /\ pc[c] = "selectPayments"
  /\ call[c].op = "confirmPayment"
  /\ LET invoice == getInvoiceDetails(call[c].invoice, payments, call[c].invoiceId)
         newPaidAmount == invoice.current_paid_amount + call[c].payment.amount
     IN call' = [call EXCEPT ![c].invoice = invoice,
                             ![c].newPaidAmount = newPaidAmount,
                             ![c].newStatus =
                               calculateInvoiceStatus(invoice.total_amount, newPaidAmount)]
  /\ pc' = [pc EXCEPT ![c] = "updatePayment"]
  /\ UNCHANGED <<invoices, payments, result, pre, probe>>

confirmPayment_updatePayment(c) ==
  /\ pc[c] = "updatePayment"
  /\ payments' = [payments EXCEPT ![call[c].paymentId] =
                    confirmedPayment(payments[call[c].paymentId], call[c].by)]
  /\ pc' = [pc EXCEPT ![c] = "updateInvoice"]
  /\ UNCHANGED <<invoices, call, result, pre, probe>>

confirmPayment_updateInvoice(c) ==
  /\ pc[c] = "updateInvoice"
  /\ invoices' = [invoices EXCEPT ![call[c].invoiceId] =
                    updatedInvoice(invoices[call[c].invoiceId],
                                   call[c].newPaidAmount, call[c].newStatus)]
  /\ Return(c, call[c].paymentId, call[c].invoice.status # call[c].newStatus)
  /\ UNCHANGED <<payments, call, pre, probe>>

-----------------------------------------------------------------------------
(* validateInvoicePayments *)

validateInvoicePayments_call(c, invoiceId) ==
  /\ pc[c] = "idle"
  /\ pc' = [pc EXCEPT ![c] = "selectInvoice"]
  /\ call' = [call EXCEPT ![c] =
                [IdleCall EXCEPT !.op = "validateInvoicePayments",
                                 !.invoiceId = invoiceId, !.by = UserOf(c)]]
  /\ UNCHANGED <<invoices, payments, result, probe>>

\* getInvoiceDetails, second query
validateInvoicePayments_details(c) ==
  /\ pc[c] = "selectPayments"
  /\ call[c].op = "validateInvoicePayments"
  /\ call' = [call EXCEPT ![c].invoice =
                getInvoiceDetails(call[c].invoice, payments, call[c].invoiceId)]
  /\ pc' = [pc EXCEPT ![c] = "selectInvoicePayments"]
  /\ UNCHANGED <<invoices, payments, result, pre, probe>>

\* faulty variant: an invoice with anomalies makes the call fail
validateInvoicePayments_check_throws(c) ==
  /\ pc[c] = "selectInvoicePayments"
  /\ LET validation == validateInvoicePayments(
                          call[c].invoice,
                          getInvoicePayments(payments, call[c].invoiceId))
     IN IF validation.isValid
          THEN ReturnValidation(c, validation)
          ELSE Throw(c, InvoiceError("Invoice payments are inconsistent"))
  /\ UNCHANGED <<invoices, payments, call, pre, probe>>

\* getInvoicePayments, then the checks
validateInvoicePayments_check(c) ==
  /\ pc[c] = "selectInvoicePayments"
  /\ ReturnValidation(c, validateInvoicePayments(
                           call[c].invoice,
                           getInvoicePayments(payments, call[c].invoiceId)))
  /\ UNCHANGED <<invoices, payments, call, pre, probe>>

-----------------------------------------------------------------------------
(* The caller takes the outcome and is free to call again *)

settle(c) ==
  /\ pc[c] = "done"
  /\ pc' = [pc EXCEPT ![c] = "idle"]
  /\ call' = [call EXCEPT ![c] = IdleCall]
  /\ result' = [result EXCEPT ![c] = NoResult]
  /\ UNCHANGED <<invoices, payments, pre, probe>>

\* a store operation of caller c fails: the client returns an error
StoreOps == {"selectInvoice", "selectPayments", "insertPayment", "selectPayment",
             "updatePayment", "updateInvoice", "selectInvoicePayments"}

storeFailure(c) ==
  /\ pc[c] \in StoreOps
  /\ Throw(c, PostgrestError("08006"))
  /\ UNCHANGED <<invoices, payments, call, pre, probe>>

-----------------------------------------------------------------------------
(* Specifications *)

Idle == \A c \in Callers : pc[c] = "idle"

\* a call that starts when no other call is in progress; pre keeps the store
\* as the call found it
serial_recordPayment(c, invoiceId, paymentData) ==
  /\ Idle
  /\ recordPayment_call(c, invoiceId, paymentData)
  /\ pre' = Store

serial_confirmPayment(c, paymentId) ==
  /\ Idle
  /\ confirmPayment_call(c, paymentId)
  /\ pre' = Store

\* a call that starts at any time
concurrent_recordPayment(c, invoiceId, paymentData) ==
  recordPayment_call(c, invoiceId, paymentData) /\ UNCHANGED pre

concurrent_confirmPayment(c, paymentId) ==
  confirmPayment_call(c, paymentId) /\ UNCHANGED pre

serial_validateInvoicePayments(c, invoiceId) ==
  /\ Idle
  /\ validateInvoicePayments_call(c, invoiceId)
  /\ pre' = Store

SerialCallers == {1}

\* calls run one at a time and the store never fails
NextSerial ==
  /\ GenerationAtRest /\ RetryAtRest
  /\ \E c \in SerialCallers :
       \/ \E i \in InvoiceIdInputs, d \in PaymentForms :
            serial_recordPayment(c, i, d)
       \/ \E p \in PaymentIdInputs : serial_confirmPayment(c, p)
       \/ getInvoiceDetails_selectInvoice(c)
       \/ recordPayment_validate(c)
       \/ recordPayment_insert(c)
       \/ confirmPayment_selectPayment(c)
       \/ confirmPayment_compute(c)
       \/ confirmPayment_updatePayment(c)
       \/ confirmPayment_updateInvoice(c)
       \/ settle(c)

Spec == Init /\ [][NextSerial]_vars

\* calls run one at a time and any store operation may fail
NextFaulty ==
  /\ GenerationAtRest /\ RetryAtRest
  /\ \E c \in SerialCallers :
       \/ \E i \in InvoiceIds, d \in CashForms : serial_recordPayment(c, i, d)
       \/ \E p \in PaymentIdInputs : serial_confirmPayment(c, p)
       \/ getInvoiceDetails_selectInvoice(c)
       \/ recordPayment_validate(c)
       \/ recordPayment_insert(c)
       \/ confirmPayment_selectPayment(c)
       \/ confirmPayment_compute(c)
       \/ confirmPayment_updatePayment(c)
       \/ confirmPayment_updateInvoice(c)
       \/ storeFailure(c)
       \/ settle(c)

SpecFaulty == Init /\ [][NextFaulty]_vars

\* calls of the two callers interleave at every store operation
NextConcurrent ==
  /\ GenerationAtRest /\ RetryAtRest
  /\ \E c \in Callers :
       \/ \E i \in InvoiceIds, d \in CashForms : concurrent_recordPayment(c, i, d)
       \/ \E p \in PaymentIdInputs : concurrent_confirmPayment(c, p)
       \/ getInvoiceDetails_selectInvoice(c)
       \/ recordPayment_validate(c)
       \/ recordPayment_insert(c)
       \/ confirmPayment_selectPayment(c)
       \/ confirmPayment_compute(c)
       \/ confirmPayment_updatePayment(c)
       \/ confirmPayment_updateInvoice(c)
       \/ settle(c)

SpecConcurrent == Init /\ [][NextConcurrent]_vars

\* cash payments of the smallest amount
UnitForms == {d \in CashForms : d.amount = 1}

\* calls of the two callers interleave at every store operation and any store
\* operation may fail
NextConcurrentFaulty ==
  /\ GenerationAtRest /\ RetryAtRest
  /\ \E c \in Callers :
       \/ \E i \in InvoiceIds, d \in UnitForms : concurrent_recordPayment(c, i, d)
       \/ \E p \in PaymentIdInputs : concurrent_confirmPayment(c, p)
       \/ getInvoiceDetails_selectInvoice(c)
       \/ recordPayment_validate(c)
       \/ recordPayment_insert(c)
       \/ confirmPayment_selectPayment(c)
       \/ confirmPayment_compute(c)
       \/ confirmPayment_updatePayment(c)
       \/ confirmPayment_updateInvoice(c)
       \/ storeFailure(c)
       \/ settle(c)

SpecConcurrentFaulty == Init /\ [][NextConcurrentFaulty]_vars

-----------------------------------------------------------------------------
(* Invoices that were marked overdue or cancelled outside the payment core; *)
(* cash payments, calls run one at a time                                   *)

InitOverdue ==
  /\ invoices \in [InvoiceIds -> {[total_amount |-> MaxTotal, paid_amount |-> 0,
                                   status |-> st] :
                                    st \in {"pending", "overdue", "cancelled"}}]
  /\ payments = <<>>
  /\ pc = [c \in Callers |-> "idle"]
  /\ call = [c \in Callers |-> IdleCall]
  /\ result = [c \in Callers |-> NoResult]
  /\ pre = Store
  /\ probe = NoProbe
  /\ generated = <<>>
  /\ submit = [c \in Callers |-> IdleSubmit]
  /\ retry = IdleRetry

NextOverdue ==
  /\ GenerationAtRest /\ RetryAtRest
  /\ \E c \in SerialCallers :
       \/ \E i \in InvoiceIds, d \in CashForms : serial_recordPayment(c, i, d)
       \/ \E p \in PaymentIdInputs : serial_confirmPayment(c, p)
       \/ getInvoiceDetails_selectInvoice(c)
       \/ recordPayment_validate(c)
       \/ recordPayment_insert(c)
       \/ confirmPayment_selectPayment(c)
       \/ confirmPayment_compute(c)
       \/ confirmPayment_updatePayment(c)
       \/ confirmPayment_updateInvoice(c)
       \/ settle(c)

SpecOverdue == InitOverdue /\ [][NextOverdue]_vars

-----------------------------------------------------------------------------
(* Audits: payments with transaction references are recorded and confirmed, *)
(* and invoices are validated, one call at a time                          *)

AuditForms ==
  {[amount |-> a, payment_method |-> "cash",
    transaction_reference |-> r, bank_name |-> NULL] :
      a \in 1..MaxTotal, r \in {NULL, <<"X">>, <<"Y">>}}

NextAudit ==
  /\ GenerationAtRest /\ RetryAtRest
  /\ \E c \in SerialCallers :
       \/ \E i \in InvoiceIds, d \in AuditForms : serial_recordPayment(c, i, d)
       \/ \E p \in PaymentIdInputs : serial_confirmPayment(c, p)
       \/ \E i \in InvoiceIdInputs : serial_validateInvoicePayments(c, i)
       \/ getInvoiceDetails_selectInvoice(c)
       \/ recordPayment_validate(c)
       \/ recordPayment_insert(c)
       \/ confirmPayment_selectPayment(c)
       \/ confirmPayment_compute(c)
       \/ confirmPayment_updatePayment(c)
       \/ confirmPayment_updateInvoice(c)
       \/ validateInvoicePayments_details(c)
       \/ validateInvoicePayments_check(c)
       \/ settle(c)

SpecAudit == Init /\ [][NextAudit]_vars

-----------------------------------------------------------------------------
(* The end-to-end scenario: invoices of 10000, cash payments of 4000, 6000 *)
(* and 15000, calls run one at a time                                      *)

InitScenario ==
  /\ invoices = [i \in InvoiceIds |->
                   [total_amount |-> 10000, paid_amount |-> 0, status |-> "pending"]]
  /\ payments = <<>>
  /\ pc = [c \in Callers |-> "idle"]
  /\ call = [c \in Callers |-> IdleCall]
  /\ result = [c \in Callers |-> NoResult]
  /\ pre = Store
  /\ probe = NoProbe
  /\ generated = <<>>
  /\ submit = [c \in Callers |-> IdleSubmit]
  /\ retry = IdleRetry

ScenarioForms ==
  {[amount |-> a, payment_method |-> "cash",
    transaction_reference |-> NULL, bank_name |-> NULL] : a \in {4000, 6000, 15000}}

NextScenario ==
  /\ GenerationAtRest /\ RetryAtRest
  /\ \E c \in SerialCallers :
       \/ \E i \in InvoiceIds, d \in ScenarioForms : serial_recordPayment(c, i, d)
       \/ \E p \in PaymentIdInputs : serial_confirmPayment(c, p)
       \/ getInvoiceDetails_selectInvoice(c)
       \/ recordPayment_validate(c)
       \/ recordPayment_insert(c)
       \/ confirmPayment_selectPayment(c)
       \/ confirmPayment_compute(c)
       \/ confirmPayment_updatePayment(c)
       \/ confirmPayment_updateInvoice(c)
       \/ settle(c)

SpecScenario == InitScenario /\ [][NextScenario]_vars

-----------------------------------------------------------------------------
(* The pure functions, evaluated on arguments drawn from bounded sets   *)
(* Each behaviour evaluates one application.                            *)

SystemAtRest ==
  UNCHANGED <<invoices, payments, pc, call, result, pre, generated, submit, retry>>

TotalInputs == 0..(MaxTotal + 1)
PaidInputs == (0 - 1)..(MaxTotal + 2)

\* calculateInvoiceStatus for one total and two paid amounts
calculateInvoiceStatus_eval(totalAmount, paidAmount, otherPaidAmount) ==
  /\ probe' = [fn |-> "calculateInvoiceStatus",
               args |-> <<totalAmount, paidAmount, otherPaidAmount>>,
               out |-> <<calculateInvoiceStatus(totalAmount, paidAmount),
                         calculateInvoiceStatus(totalAmount, otherPaidAmount)>>]
  /\ SystemAtRest

\* the errors that can be thrown inside an operation
ThrownErrors ==
  {ValidationError("Payment amount must be greater than zero", "amount"),
   ValidationError("Bank name is required for bank transfer payments", "bank_name"),
   PaymentError("Payment is already confirmed"),
   PaymentError("Payment not found"),
   InvoiceError("Invoice not found"),
   PostgrestError("PGRST116"),
   PostgrestError("08006"),
   PlainError("User not found")}

\* an error thrown under `layers` nested handleAsyncOperation calls: one in
\* recordPayment itself, two in the getInvoiceDetails it awaits
handleAsyncOperation_eval(error, layers) ==
  /\ probe' = [fn |-> "handleAsyncOperation",
               args |-> <<error, layers>>,
               out |-> IF layers = 1 THEN handleAsyncOperation(error)
                       ELSE handleAsyncOperation(handleAsyncOperation(error))]
  /\ SystemAtRest

\* payments tables of at most MaxPayments rows, in the columns the ledger reads
LedgerRows ==
  UNION {[1..n -> [invoice_id : InvoiceIds, amount : 1..MaxTotal,
                   status : {"pending", "confirmed"}]] : n \in 0..MaxPayments}

\* getInvoiceDetails on two invoice rows that differ in paid_amount only
getInvoiceDetails_eval(invoiceId, totalAmount, paidAmount, otherPaidAmount, rows) ==
  /\ probe' = [fn |-> "getInvoiceDetails",
               args |-> <<invoiceId, totalAmount, paidAmount, otherPaidAmount, rows>>,
               out |-> <<getInvoiceDetails(
                           [total_amount |-> totalAmount, paid_amount |-> paidAmount,
                            status |-> "pending"], rows, invoiceId),
                         getInvoiceDetails(
                           [total_amount |-> totalAmount,
                            paid_amount |-> otherPaidAmount,
                            status |-> "pending"], rows, invoiceId)>>]
  /\ SystemAtRest

\* validatePaymentAmount for one amount and balance and two existing totals
validatePaymentAmount_eval(amount, invoiceBalance, existing, otherExisting) ==
  /\ probe' = [fn |-> "validatePaymentAmount",
               args |-> <<amount, invoiceBalance, existing, otherExisting>>,
               out |-> <<validatePaymentAmount(amount, invoiceBalance, existing),
                         validatePaymentAmount(amount, invoiceBalance,
                                               otherExisting)>>]
  /\ SystemAtRest

\* payments tables of at most MaxPayments + 1 rows, in the columns the
\* consistency checker reads
AuditRows ==
  UNION {[1..n -> [invoice_id : InvoiceIds, amount : {1},
                   status : {"pending", "confirmed"},
                   transaction_reference : {NULL, <<>>, <<"X">>, <<"Y">>}]] :
           n \in 0..(MaxPayments + 1)}

\* validateInvoicePayments on the rows getInvoicePayments selects from a table
validateInvoicePayments_eval(invoiceId, rows) ==
  /\ probe' = [fn |-> "validateInvoicePayments",
               args |-> <<invoiceId, rows>>,
               out |-> validateInvoicePayments(
                         getInvoiceDetails(
                           [total_amount |-> MaxTotal, paid_amount |-> 0,
                            status |-> "pending"], rows, invoiceId),
                         getInvoicePayments(rows, invoiceId))]
  /\ SystemAtRest

NextPure ==
  /\ probe = NoProbe
  /\ \/ \E t \in TotalInputs, p \in PaidInputs, q \in PaidInputs :
          calculateInvoiceStatus_eval(t, p, q)
     \/ \E e \in ThrownErrors, n \in {1, 2} : handleAsyncOperation_eval(e, n)
     \/ \E i \in InvoiceIds, t \in 1..MaxTotal, p \in 0..(MaxTotal + 1),
           q \in 0..(MaxTotal + 1), rows \in LedgerRows :
          getInvoiceDetails_eval(i, t, p, q, rows)
     \/ \E a \in Amounts, b \in Amounts, e \in TotalInputs, f \in TotalInputs :
          validatePaymentAmount_eval(a, b, e, f)
     \/ \E i \in InvoiceIds, rows \in AuditRows :
          validateInvoicePayments_eval(i, rows)

SpecPure == Init /\ [][NextPure]_vars

-----------------------------------------------------------------------------
(* Invoice generation: the submit handler of the invoice form, run by two *)
(* sessions whose store operations interleave                             *)

MaxInvoices == 3

Students == {1, 2}
Terms == {"first_term", "second_term"}

\* the academic session the form was loaded with
currentSession == [id |-> "2024/2025"]

PaymentCoreAtRest ==
  UNCHANGED <<invoices, payments, pc, call, result, pre, probe>>

\* whether .single() returns data for the rows a query matches: it does when
\* there is exactly one row
single(rows) == Len(rows) = 1

\* the invoices of one student, session and term
existingInvoices(rows, studentId, sessionId, term) ==
  SelectSeq(rows, LAMBDA r : /\ r.student_id = studentId
                             /\ r.academic_session_id = sessionId
                             /\ r.term = term)

\* the row the insert of invoiceData creates
invoiceData(studentId, term) ==
  [student_id |-> studentId,
   academic_session_id |-> currentSession.id,
   term |-> term,
   total_amount |-> MaxTotal,
   paid_amount |-> 0,
   status |-> "pending"]

onSubmit_call(c, studentId, term) ==
  /\ submit[c].pc = "idle"
  /\ submit' = [submit EXCEPT ![c] =
                  [IdleSubmit EXCEPT !.pc = "selectExisting",
                                     !.student_id = studentId, !.term = term]]
  /\ UNCHANGED generated
  /\ PaymentCoreAtRest /\ RetryAtRest

\* the existence check
onSubmit_selectExisting(c) ==
  /\ submit[c].pc = "selectExisting"
  /\ LET existingInvoice ==
           single(existingInvoices(generated, submit[c].student_id,
                                   currentSession.id, submit[c].term))
     IN submit' = [submit EXCEPT
                     ![c].existingInvoice = existingInvoice,
                     ![c].pc = IF existingInvoice THEN "done" ELSE "selectUser",
                     ![c].outcome = IF existingInvoice THEN "exists" ELSE "none"]
  /\ UNCHANGED generated
  /\ PaymentCoreAtRest /\ RetryAtRest

\* the lookup of the current user
onSubmit_selectUser(c) ==
  /\ submit[c].pc = "selectUser"
  /\ submit' = [submit EXCEPT ![c].pc = "insertInvoice"]
  /\ UNCHANGED generated
  /\ PaymentCoreAtRest /\ RetryAtRest

\* the insert of the invoice row
onSubmit_insertInvoice(c) ==
  /\ submit[c].pc = "insertInvoice"
  /\ Len(generated) < MaxInvoices
  /\ generated' = Append(generated,
                         invoiceData(submit[c].student_id, submit[c].term))
  /\ submit' = [submit EXCEPT ![c].pc = "insertItems"]
  /\ PaymentCoreAtRest /\ RetryAtRest

\* the inserts of the invoice items and of the activity log, and the toast
onSubmit_insertItems(c) ==
  /\ submit[c].pc = "insertItems"
  /\ submit' = [submit EXCEPT ![c].pc = "done", ![c].outcome = "generated"]
  /\ UNCHANGED generated
  /\ PaymentCoreAtRest /\ RetryAtRest

\* finally: the form is ready for another submit
onSubmit_finally(c) ==
  /\ submit[c].pc = "done"
  /\ submit' = [submit EXCEPT ![c] = IdleSubmit]
  /\ UNCHANGED generated
  /\ PaymentCoreAtRest /\ RetryAtRest

NextGenerate ==
  \E c \in Callers :
    \/ \E st \in Students, t \in Terms : onSubmit_call(c, st, t)
    \/ onSubmit_selectExisting(c)
    \/ onSubmit_selectUser(c)
    \/ onSubmit_insertInvoice(c)
    \/ onSubmit_insertItems(c)
    \/ onSubmit_finally(c)

SpecGenerate == Init /\ [][NextGenerate]_vars

-----------------------------------------------------------------------------
(* retryOperation: the loop around an operation whose attempts resolve or *)
(* throw                                                                   *)

MaxRetries == 3

\* the operation resolved
Resolved == [kind |-> "resolved", message |-> ""]

\* a thrown value that is not an Error, as in `throw 'timeout'`
ThrownString(message) == [kind |-> "string", message |-> message]

\* what one attempt of the operation ends in
AttemptOutcomes ==
  {Resolved,
   ValidationError("Payment amount must be greater than zero", "amount"),
   PaymentError("Payment is already confirmed"),
   InvoiceError("Invoice not found"),
   PlainError("Record not found"),
   ThrownString("timeout")}

\* error instanceof Error
instanceofError(error) ==
  error.kind \in {"Error", "ValidationError", "PaymentError", "InvoiceError"}

retryOperation_call(maxRetries) ==
  /\ retry.pc = "idle"
  /\ retry' = [IdleRetry EXCEPT !.pc = "attempt", !.maxRetries = maxRetries,
                                !.attempt = 1]
  /\ PaymentCoreAtRest /\ GenerationAtRest

\* faulty variant: a ValidationError or PaymentError is retried like any other
retryOperation_attempt_retriesAll(outcome) ==
  /\ retry.pc = "attempt"
  /\ LET lastError == IF instanceofError(outcome) THEN outcome
                      ELSE PlainError("Unknown error")
         invoked == [retry EXCEPT !.history = Append(retry.history, outcome)]
     IN retry' =
          IF outcome = Resolved
            THEN [invoked EXCEPT !.pc = "done", !.ok = TRUE]
          ELSE IF retry.attempt = retry.maxRetries
            THEN [invoked EXCEPT !.pc = "done", !.error = lastError]
          ELSE [invoked EXCEPT !.pc = "delay"]
  /\ PaymentCoreAtRest /\ GenerationAtRest

\* one pass of the loop body: the operation is invoked and resolves or throws
retryOperation_attempt(outcome) ==
  /\ retry.pc = "attempt"
  /\ LET lastError == IF instanceofError(outcome) THEN outcome
                      ELSE PlainError("Unknown error")
         invoked == [retry EXCEPT !.history = Append(retry.history, outcome)]
     IN retry' =
          IF outcome = Resolved
            THEN [invoked EXCEPT !.pc = "done", !.ok = TRUE]
          ELSE IF retry.attempt = retry.maxRetries
            THEN [invoked EXCEPT !.pc = "done", !.error = lastError]
          ELSE IF outcome.kind \in {"ValidationError", "PaymentError"}
            THEN [invoked EXCEPT !.pc = "done", !.error = outcome]
          ELSE [invoked EXCEPT !.pc = "delay"]
  /\ PaymentCoreAtRest /\ GenerationAtRest

\* the backoff delay ends and the loop goes to its next pass
retryOperation_delay ==
  /\ retry.pc = "delay"
  /\ retry' = [retry EXCEPT !.pc = "attempt", !.attempt = retry.attempt + 1]
  /\ PaymentCoreAtRest /\ GenerationAtRest

\* the caller takes the outcome
retryOperation_settle ==
  /\ retry.pc = "done"
  /\ retry' = IdleRetry
  /\ PaymentCoreAtRest /\ GenerationAtRest

NextRetry ==
  \/ \E m \in 1..MaxRetries : retryOperation_call(m)
  \/ \E o \in AttemptOutcomes : retryOperation_attempt(o)
  \/ retryOperation_delay
  \/ retryOperation_settle

SpecRetry == Init /\ [][NextRetry]_vars

-----------------------------------------------------------------------------
(* Vocabulary of the properties, stated apart from the code's operators *)

RECURSIVE ConfirmedSum(_, _, _)
\* the sum of the amounts of the first n rows that are confirmed payments of
\* invoice i
ConfirmedSum(rows, i, n) ==
  IF n = 0 THEN 0
  ELSE ConfirmedSum(rows, i, n - 1)
       + (IF rows[n].invoice_id = i /\ rows[n].status = "confirmed"
            THEN rows[n].amount ELSE 0)

ConfirmedTotal(rows, i) == ConfirmedSum(rows, i, Len(rows))

\* no call is between its first and its last store operation
Quiet == \A c \in Callers : pc[c] \in {"idle", "done"}

Finished(c, op) == pc[c] = "done" /\ call[c].op = op
Running(c, op) == pc[c] # "idle" /\ call[c].op = op

StoreUntouched == invoices = pre.invoices /\ payments = pre.payments

\* missing, empty or made of blanks only
Blank(s) == s = NULL \/ \A k \in 1..Len(s) : s[k] = " "

\* the balance of invoice i when the running call started
BalanceBefore(i) ==
  pre.invoices[i].total_amount - ConfirmedTotal(pre.payments, i)

-----------------------------------------------------------------------------
\* C1: when calls run one at a time and the store never fails, between calls
\* every invoice's stored paid_amount is the sum of the amounts of its
\* confirmed payments.
C1_PaidAmountIsConfirmedSum ==
  Quiet => \A i \in InvoiceIds :
             invoices[i].paid_amount = ConfirmedTotal(payments, i)

C1_Witness ==
  /\ Quiet
  /\ \E i \in InvoiceIds :
       /\ invoices[i].paid_amount = MaxTotal
       /\ Cardinality({k \in DOMAIN payments :
                         payments[k].invoice_id = i
                         /\ payments[k].status = "confirmed"}) = 2

\* C2: once two confirmPayment calls on two different payments of one invoice
\* have both completed, the stored paid_amount counts both payments, in every
\* interleaving of their store operations.
C2_NoLostUpdate ==
  \A c, d \in Callers :
    ( /\ c # d
      /\ Finished(c, "confirmPayment") /\ Finished(d, "confirmPayment")
      /\ result[c].ok /\ result[d].ok
      /\ call[c].paymentId # call[d].paymentId
      /\ call[c].invoiceId = call[d].invoiceId )
    => invoices[call[c].invoiceId].paid_amount
         = ConfirmedTotal(payments, call[c].invoiceId)

\* C3: of the confirmPayment calls made on one payment at most one succeeds,
\* and every other one fails with PaymentError.
C3_ConfirmedExactlyOnce ==
  \A c, d \in Callers :
    ( /\ c # d
      /\ Finished(c, "confirmPayment") /\ Finished(d, "confirmPayment")
      /\ call[c].paymentId = call[d].paymentId
      /\ call[c].paymentId \in DOMAIN payments
      /\ result[c].ok )
    => ~result[d].ok /\ result[d].error.kind = "PaymentError"

\* C4: a confirmPayment call that fails leaves the payment row and the
\* invoice row as they were before the call.
C4_AllOrNothing ==
  \A c \in Callers :
    (Finished(c, "confirmPayment") /\ ~result[c].ok) => StoreUntouched

\* C5: the confirmed payments of an invoice never add up to more than its
\* total_amount.
C5_BalanceNeverNegative ==
  \A i \in InvoiceIds :
    invoices[i].total_amount - ConfirmedTotal(payments, i) >= 0

\* C6: a recordPayment call whose amount is <= 0 or exceeds the invoice's
\* balance at the time of the call persists no row at any point and ends
\* in a ValidationError.
C6_InvalidAmountRejected ==
  \A c \in Callers :
    ( /\ Running(c, "recordPayment")
      /\ call[c].invoiceId \in InvoiceIds
      /\ \/ call[c].data.amount <= 0
         \/ call[c].data.amount > BalanceBefore(call[c].invoiceId) )
    => /\ payments = pre.payments
       /\ pc[c] = "done" =>
            ~result[c].ok /\ result[c].error.kind = "ValidationError"

C6_Witness ==
  \E c \in Callers :
    /\ Finished(c, "recordPayment")
    /\ call[c].invoiceId \in InvoiceIds
    /\ call[c].data.amount > BalanceBefore(call[c].invoiceId)
    /\ call[c].data.amount <= pre.invoices[call[c].invoiceId].total_amount
    /\ result[c].error.kind = "ValidationError"

\* C7: a confirmPayment call on a payment that is already confirmed fails
\* with PaymentError and changes neither the invoice row nor the payment row.
C7_ReconfirmRejected ==
  \A c \in Callers :
    ( /\ Running(c, "confirmPayment")
      /\ call[c].paymentId \in DOMAIN pre.payments
      /\ pre.payments[call[c].paymentId].status = "confirmed" )
    => /\ StoreUntouched
       /\ pc[c] = "done" =>
            ~result[c].ok /\ result[c].error.kind = "PaymentError"

C7_Witness ==
  \E c \in Callers :
    /\ Finished(c, "confirmPayment")
    /\ call[c].paymentId \in DOMAIN pre.payments
    /\ pre.payments[call[c].paymentId].status = "confirmed"
    /\ result[c].error.kind = "PaymentError"

\* C8: a successful recordPayment adds one row, pending, with the supplied
\* invoice, amount, method and received_by, changes no other row of either
\* table, and reports invoiceStatusChanged = false.
C8_RecordAddsOnePendingRow ==
  \A c \in Callers :
    (Finished(c, "recordPayment") /\ result[c].ok) =>
      /\ Len(payments) = Len(pre.payments) + 1
      /\ SubSeq(payments, 1, Len(pre.payments)) = pre.payments
      /\ result[c].paymentId = Len(payments)
      /\ payments[Len(payments)].status = "pending"
      /\ payments[Len(payments)].invoice_id = call[c].invoiceId
      /\ payments[Len(payments)].amount = call[c].data.amount
      /\ payments[Len(payments)].payment_method = call[c].data.payment_method
      /\ payments[Len(payments)].received_by = UserOf(c)
      /\ invoices = pre.invoices
      /\ result[c].invoiceStatusChanged = FALSE

C8_Witness ==
  \E c \in Callers :
    /\ Finished(c, "recordPayment") /\ result[c].ok
    /\ Len(pre.payments) = 1
    /\ pre.payments[1].status = "confirmed"
    /\ payments[2].payment_method = "bank_transfer"

\* C9: a recordPayment call that fails in loading the invoice or in a
\* validation leaves the store as it was before the call.
C9_FailedRecordPersistsNothing ==
  \A c \in Callers :
    (Finished(c, "recordPayment") /\ ~result[c].ok) => StoreUntouched

C9_Witness ==
  /\ \E c \in Callers :
       /\ Finished(c, "recordPayment") /\ ~result[c].ok
       /\ call[c].data.payment_method = "bank_transfer"
       /\ result[c].error.field = "transaction_reference"
  /\ Len(payments) = 1

\* C10: on an invoice that loads, a bank_transfer whose bank_name or
\* transaction_reference is missing, empty or blank ends in a ValidationError
\* and persists nothing; with both present and a valid amount it succeeds;
\* with another method the bank fields never cause a failure; and every
\* stored bank_transfer row has a non-empty bank_name and
\* transaction_reference.
C10_BankDetailsRequired ==
  /\ \A c \in Callers :
       (Finished(c, "recordPayment") /\ call[c].invoiceId \in InvoiceIds) =>
         LET data == call[c].data
             amountValid == /\ data.amount > 0
                            /\ data.amount <= BalanceBefore(call[c].invoiceId)
             detailsMissing == Blank(data.bank_name)
                               \/ Blank(data.transaction_reference)
         IN /\ (data.payment_method = "bank_transfer" /\ detailsMissing) =>
                 /\ ~result[c].ok
                 /\ result[c].error.kind = "ValidationError"
                 /\ payments = pre.payments
            /\ (data.payment_method = "bank_transfer" /\ ~detailsMissing
                  /\ amountValid) => result[c].ok
            /\ (data.payment_method # "bank_transfer" /\ amountValid) =>
                 result[c].ok
            /\ data.payment_method # "bank_transfer" =>
                 result[c].error.field \notin {"bank_name", "transaction_reference"}
  /\ \A k \in DOMAIN payments :
       payments[k].payment_method = "bank_transfer" =>
         ~Blank(payments[k].bank_name) /\ ~Blank(payments[k].transaction_reference)

C10_Witness ==
  /\ \E c \in Callers :
       /\ Finished(c, "recordPayment")
       /\ call[c].data.payment_method = "bank_transfer"
       /\ call[c].data.bank_name = <<" ">>
       /\ call[c].data.transaction_reference = <<"X">>
       /\ result[c].error.kind = "ValidationError"
  /\ \E k \in DOMAIN payments : payments[k].payment_method = "bank_transfer"

\* C11: a successful confirmPayment on pending payment p of invoice i sets
\* p to confirmed with confirmed_by the caller's actor, sets i.paid_amount to
\* the sum of i's other confirmed payments plus p.amount, sets i.status to
\* calculateInvoiceStatus of the total and that amount, and returns
\* invoiceStatusChanged exactly when the stored status before the call
\* differs from the new one.
C11_ConfirmEffects ==
  \A c \in Callers :
    (Finished(c, "confirmPayment") /\ result[c].ok) =>
      LET p == call[c].paymentId
          i == pre.payments[p].invoice_id
          newPaid == ConfirmedTotal(pre.payments, i) + pre.payments[p].amount
          newStatus == calculateInvoiceStatus(pre.invoices[i].total_amount, newPaid)
      IN /\ pre.payments[p].status = "pending"
         /\ payments[p].status = "confirmed"
         /\ payments[p].confirmed_by = UserOf(c)
         /\ invoices[i].paid_amount = newPaid
         /\ invoices[i].status = newStatus
         /\ invoices[i].total_amount = pre.invoices[i].total_amount
         /\ result[c].invoiceStatusChanged = (pre.invoices[i].status # newStatus)
         /\ result[c].paymentId = p

C11_Witness ==
  \E c \in Callers :
    /\ Finished(c, "confirmPayment") /\ result[c].ok
    /\ ConfirmedTotal(pre.payments, call[c].invoiceId) > 0
    /\ result[c].invoiceStatusChanged = FALSE

\* C12 as stated: for T >= 0 and P >= 0, calculateInvoiceStatus(T, P) is
\* 'pending' when P = 0, 'partial' when 0 < P < T and 'paid' when P >= T.
C12_StatusTable_Original ==
  (probe.fn = "calculateInvoiceStatus" /\ probe.args[2] >= 0) =>
    LET T == probe.args[1]
        P == probe.args[2]
        status == probe.out[1]
    IN /\ P = 0 => status = "pending"
       /\ (0 < P /\ P < T) => status = "partial"
       /\ P >= T => status = "paid"

\* C12 as amended: for T >= 0 and P >= 0, calculateInvoiceStatus(T, P) is
\* 'pending' when P = 0, 'partial' when 0 < P < T and 'paid' when P >= T and
\* P > 0 (so T = 0, P = 0 gives 'pending').
C12_StatusTable ==
  (probe.fn = "calculateInvoiceStatus" /\ probe.args[2] >= 0) =>
    LET T == probe.args[1]
        P == probe.args[2]
        status == probe.out[1]
    IN /\ P = 0 => status = "pending"
       /\ (0 < P /\ P < T) => status = "partial"
       /\ (P >= T /\ P > 0) => status = "paid"

C12_Witness ==
  /\ probe.fn = "calculateInvoiceStatus"
  /\ probe.args[1] = 0 /\ probe.args[2] = 0
  /\ probe.out[1] = "pending"

\* C13: for a fixed total, calculateInvoiceStatus is monotonic in the paid
\* amount in the order pending < partial < paid.
StatusRank(status) ==
  CASE status = "pending" -> 0
    [] status = "partial" -> 1
    [] status = "paid" -> 2

C13_StatusMonotonic ==
  (probe.fn = "calculateInvoiceStatus" /\ probe.args[2] <= probe.args[3]) =>
    StatusRank(probe.out[1]) <= StatusRank(probe.out[2])

C13_Witness ==
  /\ probe.fn = "calculateInvoiceStatus"
  /\ probe.args[2] < probe.args[3]
  /\ probe.out = <<"partial", "paid">>

\* C14: on an invoice of 10000 with nothing paid, recordPayment(4000, cash)
\* gives a pending payment and leaves the invoice untouched; confirming it
\* gives paid_amount 4000, status partial, invoiceStatusChanged true;
\* recordPayment(6000, cash) then succeeds, and confirming it gives
\* paid_amount 10000, status paid, invoiceStatusChanged true.
ScenarioRow(i, amount, status) == <<i, amount, status, "cash">>

\* the rows of a payments table, reduced to the columns of the scenario
ScenarioRows(rows) ==
  [k \in DOMAIN rows |->
     <<rows[k].invoice_id, rows[k].amount, rows[k].status, rows[k].payment_method>>]

C14_Scenario ==
  \A c \in Callers, i \in InvoiceIds :
    /\ ( /\ Finished(c, "recordPayment") /\ call[c].invoiceId = i
         /\ call[c].data.amount = 4000 /\ pre.payments = <<>> )
       => /\ result[c].ok
          /\ ScenarioRows(payments) = <<ScenarioRow(i, 4000, "pending")>>
          /\ invoices = pre.invoices
          /\ invoices[i].paid_amount = 0 /\ invoices[i].status = "pending"
    /\ ( /\ Finished(c, "confirmPayment") /\ call[c].paymentId = 1
         /\ ScenarioRows(pre.payments) = <<ScenarioRow(i, 4000, "pending")>> )
       => /\ result[c].ok
          /\ invoices[i].paid_amount = 4000 /\ invoices[i].status = "partial"
          /\ result[c].invoiceStatusChanged = TRUE
    /\ ( /\ Finished(c, "recordPayment") /\ call[c].invoiceId = i
         /\ call[c].data.amount = 6000
         /\ ScenarioRows(pre.payments) = <<ScenarioRow(i, 4000, "confirmed")>> )
       => /\ result[c].ok
          /\ ScenarioRows(payments) = <<ScenarioRow(i, 4000, "confirmed"),
                                        ScenarioRow(i, 6000, "pending")>>
          /\ invoices = pre.invoices
    /\ ( /\ Finished(c, "confirmPayment") /\ call[c].paymentId = 2
         /\ ScenarioRows(pre.payments) = <<ScenarioRow(i, 4000, "confirmed"),
                                            ScenarioRow(i, 6000, "pending")>> )
       => /\ result[c].ok
          /\ invoices[i].paid_amount = 10000 /\ invoices[i].status = "paid"
          /\ result[c].invoiceStatusChanged = TRUE

C14_Witness ==
  \E c \in Callers, i \in InvoiceIds :
    /\ Finished(c, "confirmPayment") /\ call[c].paymentId = 2
    /\ ScenarioRows(pre.payments) = <<ScenarioRow(i, 4000, "confirmed"),
                                       ScenarioRow(i, 6000, "pending")>>
    /\ invoices[i].paid_amount = 10000 /\ invoices[i].status = "paid"
    /\ result[c].invoiceStatusChanged = TRUE

\* C15: validateInvoicePayments reports an over-collection error when the
\* invoice's confirmed payments exceed total_amount, a duplicate error when
\* two of its confirmed payments share a non-empty transaction_reference,
\* and otherwise isValid with no errors; isValid holds exactly when errors
\* is empty, and totalPayments is the confirmed sum.
OverCollected(i) == ConfirmedTotal(payments, i) > invoices[i].total_amount

SharedReference(i) ==
  \E k, l \in DOMAIN payments :
    /\ k # l
    /\ payments[k].invoice_id = i /\ payments[l].invoice_id = i
    /\ payments[k].status = "confirmed" /\ payments[l].status = "confirmed"
    /\ payments[k].transaction_reference = payments[l].transaction_reference
    /\ payments[k].transaction_reference \notin {NULL, <<>>}

HasError(validation, kind) ==
  \E k \in DOMAIN validation.errors : validation.errors[k].kind = kind

C15_ValidationVerdict ==
  \A c \in Callers :
    (Finished(c, "validateInvoicePayments") /\ call[c].invoiceId \in InvoiceIds) =>
      LET i == call[c].invoiceId
          v == result[c].validation
      IN /\ result[c].ok
         /\ OverCollected(i) => ~v.isValid /\ HasError(v, "exceed")
         /\ SharedReference(i) => ~v.isValid /\ HasError(v, "duplicate")
         /\ (~OverCollected(i) /\ ~SharedReference(i)) =>
              v.isValid /\ v.errors = <<>>
         /\ v.isValid <=> v.errors = <<>>
         /\ v.totalPayments = ConfirmedTotal(payments, i)
         /\ v.invoiceTotal = invoices[i].total_amount

C15_Witness ==
  \E c \in Callers :
    /\ Finished(c, "validateInvoicePayments") /\ result[c].ok
    /\ OverCollected(call[c].invoiceId) /\ SharedReference(call[c].invoiceId)
    /\ Len(result[c].validation.errors) = 2

\* C16: validateInvoicePayments changes no invoice row and no payment row
\* at any step, and for an invoice that loads it does not fail: anomalies
\* are reported in the returned errors only.
C16_ValidationReadOnly ==
  \A c \in Callers :
    Running(c, "validateInvoicePayments") =>
      /\ StoreUntouched
      /\ (pc[c] = "done" /\ call[c].invoiceId \in InvoiceIds) => result[c].ok

C16_Witness ==
  \E c \in Callers :
    /\ Finished(c, "validateInvoicePayments") /\ result[c].ok
    /\ ~result[c].validation.isValid
    /\ StoreUntouched /\ Len(payments) = MaxPayments

\* C17: an id that resolves to no row is reported as a domain error:
\* recordPayment and validateInvoicePayments fail with InvoiceError
\* 'Invoice not found' for an unknown invoice id, and confirmPayment fails
\* with PaymentError 'Payment not found' for an unknown payment id.
C17_NotFoundIsDomainError ==
  \A c \in Callers :
    /\ ( /\ pc[c] = "done"
         /\ call[c].op \in {"recordPayment", "validateInvoicePayments"}
         /\ call[c].invoiceId \notin InvoiceIds )
       => /\ ~result[c].ok
          /\ result[c].error.kind = "InvoiceError"
          /\ result[c].error.message = "Invoice not found"
    /\ ( /\ Finished(c, "confirmPayment")
         /\ call[c].paymentId \notin DOMAIN payments )
       => /\ ~result[c].ok
          /\ result[c].error.kind = "PaymentError"
          /\ result[c].error.message = "Payment not found"

\* C18: a ValidationError, PaymentError or InvoiceError thrown under one or
\* two layers of handleAsyncOperation reaches the caller unchanged, and a
\* store error reaches the caller as a generic Error, never as one of the
\* three domain kinds.
C18_ErrorKindsPreserved ==
  probe.fn = "handleAsyncOperation" =>
    LET thrown == probe.args[1]
        caught == probe.out
    IN /\ thrown.kind \in {"ValidationError", "PaymentError", "InvoiceError"} =>
            caught = thrown
       /\ thrown.kind = "PostgrestError" => caught.kind = "Error"
       /\ thrown.kind \notin {"ValidationError", "PaymentError", "InvoiceError"} =>
            caught.kind \notin {"ValidationError", "PaymentError", "InvoiceError"}

C18_Witness ==
  /\ probe.fn = "handleAsyncOperation"
  /\ probe.args = <<InvoiceError("Invoice not found"), 2>>
  /\ probe.out.kind = "InvoiceError"

\* C19: getInvoiceDetails on two stores that differ only in the invoice's
\* stored paid_amount returns the same current_paid_amount, the sum of the
\* invoice's confirmed payments, and the same balance, total_amount minus
\* that sum.
C19_StoredPaidAmountIgnored ==
  probe.fn = "getInvoiceDetails" =>
    LET confirmed == ConfirmedTotal(probe.args[5], probe.args[1])
    IN /\ probe.out[1].current_paid_amount = probe.out[2].current_paid_amount
       /\ probe.out[1].balance = probe.out[2].balance
       /\ probe.out[1].current_paid_amount = confirmed
       /\ probe.out[1].balance = probe.args[2] - confirmed

C19_Witness ==
  /\ probe.fn = "getInvoiceDetails"
  /\ probe.args[3] # probe.args[4]
  /\ probe.out[1].current_paid_amount = MaxTotal
  /\ probe.args[3] # MaxTotal /\ probe.args[4] # MaxTotal
  /\ probe.out[1].paid_amount # probe.out[2].paid_amount

\* C20: every step keeps every existing payment row in place with its
\* amount, invoice_id, payment_method, transaction_reference, bank_name and
\* received_by unchanged; only status and confirmed_by can differ.
C20_PaymentColumnsFrozen ==
  [][\A k \in DOMAIN payments :
       /\ k \in DOMAIN payments'
       /\ payments'[k].amount = payments[k].amount
       /\ payments'[k].invoice_id = payments[k].invoice_id
       /\ payments'[k].payment_method = payments[k].payment_method
       /\ payments'[k].transaction_reference = payments[k].transaction_reference
       /\ payments'[k].bank_name = payments[k].bank_name
       /\ payments'[k].received_by = payments[k].received_by]_vars

C20_Witness ==
  /\ Len(payments) = MaxPayments
  /\ payments[1].status = "confirmed"
  /\ payments[1].payment_method = "bank_transfer"
  /\ Truthy(payments[1].bank_name) /\ Truthy(payments[1].transaction_reference)
  /\ payments[1].confirmed_by # 0

\* C21: no step lowers an invoice's stored paid_amount, also when
\* confirmPayment calls on the same invoice interleave.
C21_PaidAmountNeverDecreases ==
  [][\A i \in InvoiceIds :
       invoices'[i].paid_amount >= invoices[i].paid_amount]_vars

\* C22: every step creates payment rows as 'pending' and changes the status
\* of an existing row only from 'pending' to 'confirmed'; so no row leaves
\* 'confirmed' and none is ever 'failed' or 'reversed'.
C22_OnlyPendingToConfirmed ==
  [][/\ \A k \in DOMAIN payments :
          /\ k \in DOMAIN payments'
          /\ payments'[k].status # payments[k].status =>
                (payments[k].status = "pending" /\ payments'[k].status = "confirmed")
          /\ payments'[k].status \notin {"failed", "reversed"}
     /\ \A k \in DOMAIN payments' :
          k \notin DOMAIN payments => payments'[k].status = "pending"]_vars

C22_Witness ==
  \E c \in Callers :
    /\ Finished(c, "confirmPayment") /\ result[c].ok
    /\ payments[call[c].paymentId].status = "confirmed"
    /\ \E k \in DOMAIN payments : payments[k].status = "pending"

\* the reference of C23: only amount <= 0 and amount > balance are rejected
AmountReference(amount, invoiceBalance) ==
  IF amount <= 0
    THEN ValidationError("Payment amount must be greater than zero", "amount")
  ELSE IF amount > invoiceBalance
    THEN ValidationError("Payment amount cannot exceed invoice balance", "amount")
  ELSE NoError

\* C23: for every amount, balance and existing confirmed total,
\* validatePaymentAmount gives the outcome of the reference that has no third
\* check, so the outcome is the same for any two existing totals.
C23_ThirdCheckDead ==
  probe.fn = "validatePaymentAmount" =>
    /\ probe.out[1] = AmountReference(probe.args[1], probe.args[2])
    /\ probe.out[2] = probe.out[1]

C23_Witness ==
  /\ probe.fn = "validatePaymentAmount"
  /\ probe.args[1] > 0 /\ probe.args[1] <= probe.args[2]
  /\ probe.args[3] + probe.args[1] > probe.args[2]
  /\ probe.args[4] = 0
  /\ probe.out = <<NoError, NoError>>

\* the rows of invoice i that are confirmed and carry reference r
ConfirmedWithRef(rows, i, r) ==
  {k \in DOMAIN rows : /\ rows[k].invoice_id = i
                       /\ rows[k].status = "confirmed"
                       /\ rows[k].transaction_reference = r}

\* the non-empty references found on two or more confirmed rows of invoice i
DuplicatedRefs(rows, i) ==
  {r \in {rows[k].transaction_reference : k \in DOMAIN rows} :
     /\ r # NULL /\ Len(r) > 0
     /\ Cardinality(ConfirmedWithRef(rows, i, r)) >= 2}

\* C24: validateInvoicePayments reports a duplicate-reference error exactly
\* when a non-empty transaction_reference is on two or more confirmed
\* payments of the invoice, and the reported list holds every such value.
C24_DuplicateReferences ==
  probe.fn = "validateInvoicePayments" =>
    LET rows == probe.args[2]
        i == probe.args[1]
        errors == probe.out.errors
    IN /\ HasError(probe.out, "duplicate") <=> DuplicatedRefs(rows, i) # {}
       /\ \A e \in DOMAIN errors :
            errors[e].kind = "duplicate" =>
              {errors[e].refs[j] : j \in DOMAIN errors[e].refs}
                = DuplicatedRefs(rows, i)

C24_Witness ==
  /\ probe.fn = "validateInvoicePayments"
  /\ Len(probe.args[2]) = MaxPayments + 1
  /\ DuplicatedRefs(probe.args[2], probe.args[1]) = {<<"X">>}
  /\ \E k \in DOMAIN probe.args[2] :
       /\ probe.args[2][k].transaction_reference = <<"X">>
       /\ probe.args[2][k].status = "pending"
       /\ probe.args[2][k].invoice_id = probe.args[1]
  /\ HasError(probe.out, "duplicate")

\* C25: a ValidationError of recordPayment names its field, and the checks
\* run in the order amount, bank_name, transaction_reference: the field is
\* 'amount' whenever the amount is invalid, 'bank_name' when the amount is
\* valid and a bank_transfer has a blank bank_name, and
\* 'transaction_reference' only when the amount and the bank_name are valid.
C25_ValidationFieldOrder ==
  \A c \in Callers :
    (Finished(c, "recordPayment") /\ call[c].invoiceId \in InvoiceIds) =>
      LET data == call[c].data
          amountValid == /\ data.amount > 0
                         /\ data.amount <= BalanceBefore(call[c].invoiceId)
          transfer == data.payment_method = "bank_transfer"
          error == result[c].error
      IN /\ error.kind = "ValidationError" =>
              error.field \in {"amount", "bank_name", "transaction_reference"}
         /\ ~amountValid =>
              error.kind = "ValidationError" /\ error.field = "amount"
         /\ (amountValid /\ transfer /\ Blank(data.bank_name)) =>
              error.kind = "ValidationError" /\ error.field = "bank_name"
         /\ (amountValid /\ transfer /\ ~Blank(data.bank_name)
               /\ Blank(data.transaction_reference)) =>
              error.kind = "ValidationError"
              /\ error.field = "transaction_reference"
         /\ error.field = "transaction_reference" =>
              amountValid /\ ~Blank(data.bank_name)

C25_Witness ==
  \E c \in Callers :
    /\ Finished(c, "recordPayment") /\ call[c].invoiceId \in InvoiceIds
    /\ call[c].data.payment_method = "bank_transfer"
    /\ call[c].data.amount > BalanceBefore(call[c].invoiceId)
    /\ call[c].data.bank_name = <<>>
    /\ result[c].error.field = "amount"

\* C26: at most one generated invoice exists per student, academic session
\* and term, also when two submits for the same triple interleave.
C26_OneInvoicePerTerm ==
  \A st \in Students, t \in Terms :
    Cardinality({k \in DOMAIN generated :
                   /\ generated[k].student_id = st
                   /\ generated[k].academic_session_id = currentSession.id
                   /\ generated[k].term = t}) <= 1

\* what C27 asks of the invocations of the operation: at most maxRetries of
\* them, none after one that resolved or threw a ValidationError or
\* PaymentError, and a successful call ends with the attempt that resolved
RetryInvocations ==
  LET n == Len(retry.history)
  IN /\ n <= retry.maxRetries
     /\ \A k \in 1..(n - 1) :
          retry.history[k].kind \notin {"resolved", "ValidationError", "PaymentError"}
     /\ (retry.pc = "done" /\ retry.ok) => retry.history[n] = Resolved
     /\ (retry.pc = "done" /\ ~retry.ok) =>
          /\ retry.history[n] # Resolved
          /\ \/ n = retry.maxRetries
             \/ retry.history[n].kind \in {"ValidationError", "PaymentError"}

\* C27 as stated: the invocations are as above, and a failed call throws
\* what its last attempt threw.
C27_RetryContract_Original ==
  /\ RetryInvocations
  /\ (retry.pc = "done" /\ ~retry.ok) =>
       retry.error = retry.history[Len(retry.history)]

\* C27, amended: the invocations are as above, and a failed call throws what
\* its last attempt threw when that is an Error, and a new Error('Unknown
\* error') when it is not.
C27_RetryContract ==
  /\ RetryInvocations
  /\ (retry.pc = "done" /\ ~retry.ok) =>
       LET last == retry.history[Len(retry.history)]
       IN IF last.kind \in {"Error", "ValidationError", "PaymentError",
                            "InvoiceError"}
            THEN retry.error = last
          ELSE /\ retry.error.kind = "Error"
               /\ retry.error.message = "Unknown error"

C27_Witness ==
  /\ retry.pc = "done" /\ ~retry.ok
  /\ retry.maxRetries = MaxRetries
  /\ Len(retry.history) = 2
  /\ retry.history[1].kind = "InvoiceError"
  /\ retry.history[2].kind = "PaymentError"
  /\ retry.error.kind = "PaymentError"

\* C28: in every reachable state, with interleaved calls and failing store
\* operations, every invoice's stored status is calculateInvoiceStatus of its
\* total_amount and its stored paid_amount.
C28_StatusMatchesPaidAmount ==
  \A i \in InvoiceIds :
    invoices[i].status =
      calculateInvoiceStatus(invoices[i].total_amount, invoices[i].paid_amount)

C28_Witness ==
  \E i \in InvoiceIds, c \in Callers :
    /\ invoices[i].paid_amount > 0
    /\ invoices[i].paid_amount # ConfirmedTotal(payments, i)
    /\ Finished(c, "confirmPayment") /\ ~result[c].ok
    /\ call[c].invoiceId = i

\* the stored paid_amount of invoice i differed from the sum of its confirmed
\* payments when the running call started
DriftBefore(i) ==
  pre.invoices[i].paid_amount # ConfirmedTotal(pre.payments, i)

\* C29: a confirmPayment that runs alone to completion on a pending payment
\* of an invoice whose stored paid_amount had drifted from the sum of its
\* confirmed payments leaves paid_amount equal to the sum of all confirmed
\* payments of the invoice.
C29_ConfirmRepairsDrift ==
  \A c \in Callers :
    (/\ Finished(c, "confirmPayment") /\ result[c].ok
     /\ DriftBefore(pre.payments[call[c].paymentId].invoice_id)) =>
      LET i == pre.payments[call[c].paymentId].invoice_id
      IN /\ invoices[i].paid_amount = ConfirmedTotal(payments, i)
         /\ payments[call[c].paymentId].status = "confirmed"

C29_Witness ==
  \E c \in Callers :
    /\ Finished(c, "confirmPayment") /\ result[c].ok
    /\ DriftBefore(call[c].invoiceId)
    /\ invoices[call[c].invoiceId].paid_amount = MaxTotal
    /\ pre.invoices[call[c].invoiceId].paid_amount = 0

\* C30: recordPayment accepts a valid amount on an invoice whose status is
\* 'overdue' or 'cancelled', and after a successful confirmPayment the
\* invoice's stored status is the computed one of pending, partial and paid,
\* with invoiceStatusChanged true when the status before was 'overdue' or
\* 'cancelled'.
C30_ClosedStatusOverwritten ==
  \A c \in Callers :
    /\ (Finished(c, "recordPayment")
          /\ call[c].data.amount > 0
          /\ call[c].data.amount <= BalanceBefore(call[c].invoiceId)) =>
         result[c].ok
    /\ (Finished(c, "confirmPayment") /\ result[c].ok) =>
         LET i == pre.payments[call[c].paymentId].invoice_id
         IN /\ invoices[i].status \in {"pending", "partial", "paid"}
            /\ invoices[i].status =
                 calculateInvoiceStatus(invoices[i].total_amount,
                                        invoices[i].paid_amount)
            /\ pre.invoices[i].status \in {"overdue", "cancelled"} =>
                 result[c].invoiceStatusChanged
    /\ (Finished(c, "confirmPayment")
          /\ call[c].paymentId \in DOMAIN pre.payments
          /\ pre.payments[call[c].paymentId].status = "pending") =>
         result[c].ok

C30_Witness ==
  \E c \in Callers :
    /\ Finished(c, "confirmPayment") /\ result[c].ok
    /\ pre.invoices[call[c].invoiceId].status = "cancelled"
    /\ invoices[call[c].invoiceId].status = "partial"
    /\ result[c].invoiceStatusChanged

====
